---------------------------- MODULE Spec2Model ----------------------------
(***************************************************************************)
(* The xv6 buffer cache of kernel/bio.c: NBUF buffer slots hashed into     *)
(* NBUCKET shard lists, one spinlock per shard, one sleeplock per slot.    *)
(* Threads call bread / bwrite / brelse / bpin / bunpin; bget is modelled   *)
(* step by step at the granularity of its lock operations.                 *)
(***************************************************************************)
EXTENDS Integers, Sequences, FiniteSets, TLC

\* ---- program constants and model bounds --------------------------------
NBUCKET == 13

NBUF == 2

NTHREADS == 2

MaxTicks == 1

MaxPins == 1

None == 0

Slots == 1..NBUF

Threads == 1..NTHREADS

Buckets == 0..(NBUCKET - 1)

\* device numbers and block numbers the file system layer asks for
\* (ROOTDEV; blocks 0 and NBUCKET share a home shard)
Devs == {1}

BlockNos == {0, 1, 2, NBUCKET}

NoPanic == "none"

VARIABLES
    buf,       \* buf[s]: dev, blockno, valid, refcnt, timestamp of slot s
    table,     \* table[i]: the list of shard i, table[i].next first
    lock,      \* lock[i]: holder of bcache.lock[i], or None
    slock,     \* slock[s]: holder of buf[s].lock (sleeplock), or None
    ticks,     \* the tick counter
    panicked,  \* the panic message once panic() was called
    pc,        \* pc[t]: where thread t is
    rdev,      \* rdev[t], rblk[t]: the arguments of the running bread
    rblk,
    bp,        \* bp[t]: the local b of bget / the buffer the thread uses
    cur,       \* cur[t]: the loop variable i of the eviction scan; id in brelse
    cycle,     \* cycle[t]: the loop variable cycle of the eviction scan
    pins       \* pins[s]: bpin calls on s not yet matched by a bunpin

vars == <<buf, table, lock, slock, ticks, panicked, pc, rdev, rblk, bp,
          cur, cycle, pins>>

HASH(x) == x % NBUCKET

\* spinlock.c holding(): the lock is held by the calling cpu
holding(i, t) == lock[i] = t

\* sleeplock.c holdingsleep(): the sleeplock is held by the calling process
holdingsleep(s, t) == slock[s] = t

\* binit: every buffer is pushed at the head of table[0]
RECURSIVE InitList(_)
InitList(n) == IF n = 0 THEN <<>> ELSE <<n>> \o InitList(n - 1)

Init ==
    /\ buf = [s \in Slots |->
                [dev |-> 0, blockno |-> 0, valid |-> 0, refcnt |-> 0,
                 timestamp |-> 0]]
    /\ table = [i \in Buckets |-> IF i = 0 THEN InitList(NBUF) ELSE <<>>]
    /\ lock = [i \in Buckets |-> None]
    /\ slock = [s \in Slots |-> None]
    /\ ticks = 0
    /\ panicked = NoPanic
    /\ pc = [t \in Threads |-> "idle"]
    /\ rdev = [t \in Threads |-> 0]
    /\ rblk = [t \in Threads |-> 0]
    /\ bp = [t \in Threads |-> None]
    /\ cur = [t \in Threads |-> 0]
    /\ cycle = [t \in Threads |-> 0]
    /\ pins = [s \in Slots |-> 0]

\* the hit loop of bget: the first buffer of the list with the identity
RECURSIVE Lookup(_, _, _)
Lookup(list, d, n) ==
    IF list = <<>> THEN None
    ELSE IF buf[Head(list)].dev = d /\ buf[Head(list)].blockno = n
         THEN Head(list)
         ELSE Lookup(Tail(list), d, n)

\* LRUScan without the test refcnt == 0
RECURSIVE LRUScan_AnyRefcnt(_, _)
LRUScan_AnyRefcnt(list, b) ==
    IF list = <<>> THEN b
    ELSE LET tmp == Head(list) IN
         LRUScan_AnyRefcnt(Tail(list),
                 IF b = None \/ buf[tmp].timestamp < buf[b].timestamp
                 THEN tmp ELSE b)

\* the LRU loop of bget over one list, starting from candidate b
RECURSIVE LRUScan(_, _)
LRUScan(list, b) ==
    IF list = <<>> THEN b
    ELSE LET tmp == Head(list) IN
         LRUScan(Tail(list),
                 IF buf[tmp].refcnt = 0
                    /\ (b = None \/ buf[tmp].timestamp < buf[b].timestamp)
                 THEN tmp ELSE b)

Remove(list, s) == SelectSeq(list, LAMBDA x : x # s)

\* the clock interrupt
Tick ==
    /\ panicked = NoPanic
    /\ ticks < MaxTicks
    /\ ticks' = ticks + 1
    /\ UNCHANGED <<buf, table, lock, slock, panicked, pc, rdev, rblk, bp,
                   cur, cycle, pins>>

\* a thread calls bread(d, n)
Bread(t, d, n) ==
    /\ panicked = NoPanic
    /\ pc[t] = "idle"
    /\ pc' = [pc EXCEPT ![t] = "bget"]
    /\ rdev' = [rdev EXCEPT ![t] = d]
    /\ rblk' = [rblk EXCEPT ![t] = n]
    /\ UNCHANGED <<buf, table, lock, slock, ticks, panicked, bp, cur, cycle,
                   pins>>

\* BgetLookup with the home lock released before the eviction scan
BgetLookup_DropsHomeLock(t) ==
    /\ panicked = NoPanic
    /\ pc[t] = "bget"
    /\ lock[HASH(rblk[t])] = None
    /\ LET id == HASH(rblk[t])
           b == Lookup(table[id], rdev[t], rblk[t])
       IN IF b # None
          THEN /\ buf' = [buf EXCEPT ![b].refcnt = @ + 1]
               /\ bp' = [bp EXCEPT ![t] = b]
               /\ pc' = [pc EXCEPT ![t] = "hit_sleep"]
               /\ UNCHANGED <<lock, cur, cycle>>
          ELSE /\ bp' = [bp EXCEPT ![t] = None]
               /\ cur' = [cur EXCEPT ![t] = id]
               /\ cycle' = [cycle EXCEPT ![t] = 0]
               /\ pc' = [pc EXCEPT ![t] = "scan"]
               /\ UNCHANGED <<buf, lock>>
    /\ UNCHANGED <<table, slock, ticks, panicked, rdev, rblk, pins>>

\* BgetLookup whose hit path forgets b->refcnt++
BgetLookup_NoRefcnt(t) ==
    /\ panicked = NoPanic
    /\ pc[t] = "bget"
    /\ lock[HASH(rblk[t])] = None
    /\ LET id == HASH(rblk[t])
           b == Lookup(table[id], rdev[t], rblk[t])
       IN IF b # None
          THEN /\ bp' = [bp EXCEPT ![t] = b]
               /\ pc' = [pc EXCEPT ![t] = "hit_sleep"]
               /\ UNCHANGED <<buf, lock, cur, cycle>>
          ELSE /\ lock' = [lock EXCEPT ![id] = t]
               /\ bp' = [bp EXCEPT ![t] = None]
               /\ cur' = [cur EXCEPT ![t] = id]
               /\ cycle' = [cycle EXCEPT ![t] = 0]
               /\ pc' = [pc EXCEPT ![t] = "scan"]
               /\ UNCHANGED buf
    /\ UNCHANGED <<table, slock, ticks, panicked, rdev, rblk, pins>>

\* bget: acquire the home lock and look the block up; on a hit take a
\* reference and release the lock, on a miss keep the lock and start the scan
BgetLookup(t) ==
    /\ panicked = NoPanic
    /\ pc[t] = "bget"
    /\ lock[HASH(rblk[t])] = None
    /\ LET id == HASH(rblk[t])
           b == Lookup(table[id], rdev[t], rblk[t])
       IN IF b # None
          THEN /\ buf' = [buf EXCEPT ![b].refcnt = @ + 1]
               /\ bp' = [bp EXCEPT ![t] = b]
               /\ pc' = [pc EXCEPT ![t] = "hit_sleep"]
               /\ UNCHANGED <<lock, cur, cycle>>
          ELSE /\ lock' = [lock EXCEPT ![id] = t]
               /\ bp' = [bp EXCEPT ![t] = None]
               /\ cur' = [cur EXCEPT ![t] = id]
               /\ cycle' = [cycle EXCEPT ![t] = 0]
               /\ pc' = [pc EXCEPT ![t] = "scan"]
               /\ UNCHANGED buf
    /\ UNCHANGED <<table, slock, ticks, panicked, rdev, rblk, pins>>

\* BgetHitSleep that returns b without acquiresleep
BgetHitSleep_NoAcquire(t) ==
    /\ panicked = NoPanic
    /\ pc[t] = "hit_sleep"
    /\ pc' = [pc EXCEPT ![t] = "ret_hit"]
    /\ UNCHANGED <<buf, table, lock, slock, ticks, panicked, rdev, rblk, bp,
                   cur, cycle, pins>>

\* bget, hit path: acquiresleep(&b->lock); return b
BgetHitSleep(t) ==
    /\ panicked = NoPanic
    /\ pc[t] = "hit_sleep"
    /\ slock[bp[t]] = None
    /\ slock' = [slock EXCEPT ![bp[t]] = t]
    /\ pc' = [pc EXCEPT ![t] = "ret_hit"]
    /\ UNCHANGED <<buf, table, lock, ticks, panicked, rdev, rblk, bp, cur,
                   cycle, pins>>

\* bget, one iteration of the eviction loop over shard cur[t]
BgetScan(t) ==
    /\ panicked = NoPanic
    /\ pc[t] = "scan"
    /\ cycle[t] # NBUCKET
    /\ LET id == HASH(rblk[t])
           i == cur[t]
       IN IF i # id /\ holding(i, t)
          THEN \* continue
               /\ cur' = [cur EXCEPT ![t] = (i + 1) % NBUCKET]
               /\ UNCHANGED <<lock, bp, pc>>
          ELSE /\ (i # id => lock[i] = None)
               /\ LET b == LRUScan(table[i], bp[t])
                  IN IF b # None
                     THEN /\ lock' = [lock EXCEPT ![i] = t]
                          /\ bp' = [bp EXCEPT ![t] = b]
                          /\ pc' = [pc EXCEPT ![t] =
                                      IF i # id THEN "unlink" ELSE "install"]
                          /\ UNCHANGED cur
                     ELSE /\ cur' = [cur EXCEPT ![t] = (i + 1) % NBUCKET]
                          /\ UNCHANGED <<lock, bp, pc>>
    /\ cycle' = [cycle EXCEPT ![t] = @ + 1]
    /\ UNCHANGED <<buf, table, slock, ticks, panicked, rdev, rblk, pins>>

\* BgetUnlink that forgets release(&bcache.lock[i])
BgetUnlink_KeepsLock(t) ==
    /\ panicked = NoPanic
    /\ pc[t] = "unlink"
    /\ table' = [table EXCEPT ![cur[t]] = Remove(@, bp[t])]
    /\ pc' = [pc EXCEPT ![t] = "relink"]
    /\ UNCHANGED <<buf, lock, slock, ticks, panicked, rdev, rblk, bp, cur,
                   cycle, pins>>

\* BgetUnlink that leaves the victim linked in the foreign shard
BgetUnlink_NoRemove(t) ==
    /\ panicked = NoPanic
    /\ pc[t] = "unlink"
    /\ table' = table
    /\ lock' = [lock EXCEPT ![cur[t]] = None]
    /\ pc' = [pc EXCEPT ![t] = "relink"]
    /\ UNCHANGED <<buf, slock, ticks, panicked, rdev, rblk, bp, cur, cycle,
                   pins>>

\* bget: the victim is unlinked from the foreign shard, whose lock is released
BgetUnlink(t) ==
    /\ panicked = NoPanic
    /\ pc[t] = "unlink"
    /\ table' = [table EXCEPT ![cur[t]] = Remove(@, bp[t])]
    /\ lock' = [lock EXCEPT ![cur[t]] = None]
    /\ pc' = [pc EXCEPT ![t] = "relink"]
    /\ UNCHANGED <<buf, slock, ticks, panicked, rdev, rblk, bp, cur, cycle,
                   pins>>

\* BgetRelink that links the victim back into the shard it came from
BgetRelink_WrongShard(t) ==
    /\ panicked = NoPanic
    /\ pc[t] = "relink"
    /\ table' = [table EXCEPT ![cur[t]] = <<bp[t]>> \o @]
    /\ pc' = [pc EXCEPT ![t] = "install"]
    /\ UNCHANGED <<buf, lock, slock, ticks, panicked, rdev, rblk, bp, cur,
                   cycle, pins>>

\* BgetRelink that overwrites the home list with the victim alone
BgetRelink_Replaces(t) ==
    /\ panicked = NoPanic
    /\ pc[t] = "relink"
    /\ table' = [table EXCEPT ![HASH(rblk[t])] = <<bp[t]>>]
    /\ pc' = [pc EXCEPT ![t] = "install"]
    /\ UNCHANGED <<buf, lock, slock, ticks, panicked, rdev, rblk, bp, cur,
                   cycle, pins>>

\* bget: the victim is linked at the head of the home shard
BgetRelink(t) ==
    /\ panicked = NoPanic
    /\ pc[t] = "relink"
    /\ table' = [table EXCEPT ![HASH(rblk[t])] = <<bp[t]>> \o @]
    /\ pc' = [pc EXCEPT ![t] = "install"]
    /\ UNCHANGED <<buf, lock, slock, ticks, panicked, rdev, rblk, bp, cur,
                   cycle, pins>>

\* BgetInstall that forgets b->valid = 0
BgetInstall_KeepsValid(t) ==
    /\ panicked = NoPanic
    /\ pc[t] = "install"
    /\ buf' = [buf EXCEPT ![bp[t]] =
                 [dev |-> rdev[t], blockno |-> rblk[t],
                  valid |-> buf[bp[t]].valid,
                  refcnt |-> 1, timestamp |-> ticks]]
    /\ lock' = [lock EXCEPT ![HASH(rblk[t])] = None]
    /\ pc' = [pc EXCEPT ![t] = "miss_sleep"]
    /\ UNCHANGED <<table, slock, ticks, panicked, rdev, rblk, bp, cur, cycle,
                   pins>>

\* bget: the victim gets its new identity and the home lock is released
BgetInstall(t) ==
    /\ panicked = NoPanic
    /\ pc[t] = "install"
    /\ buf' = [buf EXCEPT ![bp[t]] =
                 [dev |-> rdev[t], blockno |-> rblk[t], valid |-> 0,
                  refcnt |-> 1, timestamp |-> ticks]]
    /\ lock' = [lock EXCEPT ![HASH(rblk[t])] = None]
    /\ pc' = [pc EXCEPT ![t] = "miss_sleep"]
    /\ UNCHANGED <<table, slock, ticks, panicked, rdev, rblk, bp, cur, cycle,
                   pins>>

\* bget, miss path: acquiresleep(&b->lock); return b
BgetMissSleep(t) ==
    /\ panicked = NoPanic
    /\ pc[t] = "miss_sleep"
    /\ slock[bp[t]] = None
    /\ slock' = [slock EXCEPT ![bp[t]] = t]
    /\ pc' = [pc EXCEPT ![t] = "ret_miss"]
    /\ UNCHANGED <<buf, table, lock, ticks, panicked, rdev, rblk, bp, cur,
                   cycle, pins>>

\* bget that gives up after the first shard it found without an idle slot
BgetPanic_Early(t) ==
    /\ panicked = NoPanic
    /\ pc[t] = "scan"
    /\ cycle[t] >= 1
    /\ panicked' = "bget: no buffers"
    /\ UNCHANGED <<buf, table, lock, slock, ticks, pc, rdev, rblk, bp, cur,
                   cycle, pins>>

\* bget: the loop ended without a victim
BgetPanic(t) ==
    /\ panicked = NoPanic
    /\ pc[t] = "scan"
    /\ cycle[t] = NBUCKET
    /\ panicked' = "bget: no buffers"
    /\ UNCHANGED <<buf, table, lock, slock, ticks, pc, rdev, rblk, bp, cur,
                   cycle, pins>>

\* bread after bget returned: read from disk if the buffer is not valid
BreadCheck(t) ==
    /\ panicked = NoPanic
    /\ pc[t] \in {"ret_hit", "ret_miss"}
    /\ pc' = [pc EXCEPT ![t] =
                IF buf[bp[t]].valid = 0 THEN "io_read" ELSE "holding"]
    /\ UNCHANGED <<buf, table, lock, slock, ticks, panicked, rdev, rblk, bp,
                   cur, cycle, pins>>

\* BreadDone that forgets b->valid = 1
BreadDone_NoValid(t) ==
    /\ panicked = NoPanic
    /\ pc[t] = "io_read"
    /\ pc' = [pc EXCEPT ![t] = "holding"]
    /\ UNCHANGED <<buf, table, lock, slock, ticks, panicked, rdev, rblk, bp,
                   cur, cycle, pins>>

\* bread: virtio_disk_rw(b, 0) returned; b->valid = 1; return b
BreadDone(t) ==
    /\ panicked = NoPanic
    /\ pc[t] = "io_read"
    /\ buf' = [buf EXCEPT ![bp[t]].valid = 1]
    /\ pc' = [pc EXCEPT ![t] = "holding"]
    /\ UNCHANGED <<table, lock, slock, ticks, panicked, rdev, rblk, bp, cur,
                   cycle, pins>>

\* a thread calls bwrite(s)
Bwrite(t, s) ==
    /\ panicked = NoPanic
    /\ pc[t] \in {"idle", "holding"}
    /\ IF ~holdingsleep(s, t)
       THEN /\ panicked' = "bwrite"
            /\ UNCHANGED <<pc, bp>>
       ELSE /\ pc' = [pc EXCEPT ![t] = "io_write"]
            /\ bp' = [bp EXCEPT ![t] = s]
            /\ UNCHANGED panicked
    /\ UNCHANGED <<buf, table, lock, slock, ticks, rdev, rblk, cur, cycle,
                   pins>>

\* bwrite: virtio_disk_rw(b, 1) returned
BwriteDone(t) ==
    /\ panicked = NoPanic
    /\ pc[t] = "io_write"
    /\ pc' = [pc EXCEPT ![t] = "holding"]
    /\ UNCHANGED <<buf, table, lock, slock, ticks, panicked, rdev, rblk, bp,
                   cur, cycle, pins>>

\* Brelse without the holdingsleep check
Brelse_NoCheck(t, s) ==
    /\ panicked = NoPanic
    /\ pc[t] \in {"idle", "holding"}
    /\ slock' = [slock EXCEPT ![s] = None]
    /\ bp' = [bp EXCEPT ![t] = s]
    /\ cur' = [cur EXCEPT ![t] = HASH(buf[s].blockno)]
    /\ pc' = [pc EXCEPT ![t] = "brelse_dec"]
    /\ UNCHANGED <<buf, table, lock, ticks, panicked, rdev, rblk, cycle, pins>>

\* brelse that forgets releasesleep(&b->lock)
Brelse_KeepsSleeplock(t, s) ==
    /\ panicked = NoPanic
    /\ pc[t] \in {"idle", "holding"}
    /\ IF ~holdingsleep(s, t)
       THEN /\ panicked' = "brelse"
            /\ UNCHANGED <<pc, bp, cur>>
       ELSE /\ bp' = [bp EXCEPT ![t] = s]
            /\ cur' = [cur EXCEPT ![t] = HASH(buf[s].blockno)]
            /\ pc' = [pc EXCEPT ![t] = "brelse_dec"]
            /\ UNCHANGED panicked
    /\ UNCHANGED <<buf, table, lock, slock, ticks, rdev, rblk, cycle, pins>>

\* a thread calls brelse(s): the check and releasesleep
Brelse(t, s) ==
    /\ panicked = NoPanic
    /\ pc[t] \in {"idle", "holding"}
    /\ IF ~holdingsleep(s, t)
       THEN /\ panicked' = "brelse"
            /\ UNCHANGED <<pc, bp, slock, cur>>
       ELSE /\ slock' = [slock EXCEPT ![s] = None]
            /\ bp' = [bp EXCEPT ![t] = s]
            /\ cur' = [cur EXCEPT ![t] = HASH(buf[s].blockno)]
            /\ pc' = [pc EXCEPT ![t] = "brelse_dec"]
            /\ UNCHANGED panicked
    /\ UNCHANGED <<buf, table, lock, ticks, rdev, rblk, cycle, pins>>

\* BrelseDec that forgets b->timestamp = ticks
BrelseDec_NoStamp(t) ==
    /\ panicked = NoPanic
    /\ pc[t] = "brelse_dec"
    /\ lock[cur[t]] = None
    /\ buf' = [buf EXCEPT ![bp[t]].refcnt = @ - 1]
    /\ pc' = [pc EXCEPT ![t] = "idle"]
    /\ bp' = [bp EXCEPT ![t] = None]
    /\ rdev' = [rdev EXCEPT ![t] = 0]
    /\ rblk' = [rblk EXCEPT ![t] = 0]
    /\ cur' = [cur EXCEPT ![t] = 0]
    /\ cycle' = [cycle EXCEPT ![t] = 0]
    /\ UNCHANGED <<table, lock, slock, ticks, panicked, pins>>

\* brelse: under bcache.lock[id], refcnt-- and the timestamp; return
BrelseDec(t) ==
    /\ panicked = NoPanic
    /\ pc[t] = "brelse_dec"
    /\ lock[cur[t]] = None
    /\ buf' = [buf EXCEPT ![bp[t]].refcnt = @ - 1,
                          ![bp[t]].timestamp = ticks]
    /\ pc' = [pc EXCEPT ![t] = "idle"]
    /\ bp' = [bp EXCEPT ![t] = None]
    /\ rdev' = [rdev EXCEPT ![t] = 0]
    /\ rblk' = [rblk EXCEPT ![t] = 0]
    /\ cur' = [cur EXCEPT ![t] = 0]
    /\ cycle' = [cycle EXCEPT ![t] = 0]
    /\ UNCHANGED <<table, lock, slock, ticks, panicked, pins>>

\* Bpin that forgets b->refcnt++
Bpin_NoRefcnt(t, s) ==
    /\ panicked = NoPanic
    /\ pc[t] \in {"idle", "holding"}
    /\ buf[s].refcnt > 0
    /\ pins[s] < MaxPins
    /\ lock[HASH(buf[s].blockno)] = None
    /\ pins' = [pins EXCEPT ![s] = @ + 1]
    /\ UNCHANGED <<buf, table, lock, slock, ticks, panicked, pc, rdev, rblk,
                   bp, cur, cycle>>

\* a thread calls bpin(s) on a buffer somebody has a reference to
Bpin(t, s) ==
    /\ panicked = NoPanic
    /\ pc[t] \in {"idle", "holding"}
    /\ buf[s].refcnt > 0
    /\ pins[s] < MaxPins
    /\ lock[HASH(buf[s].blockno)] = None
    /\ buf' = [buf EXCEPT ![s].refcnt = @ + 1]
    /\ pins' = [pins EXCEPT ![s] = @ + 1]
    /\ UNCHANGED <<table, lock, slock, ticks, panicked, pc, rdev, rblk, bp,
                   cur, cycle>>

\* bunpin that also records the tick, as brelse does
Bunpin_Stamps(t, s) ==
    /\ panicked = NoPanic
    /\ pc[t] \in {"idle", "holding"}
    /\ pins[s] > 0
    /\ lock[HASH(buf[s].blockno)] = None
    /\ buf' = [buf EXCEPT ![s].refcnt = @ - 1, ![s].timestamp = ticks]
    /\ pins' = [pins EXCEPT ![s] = @ - 1]
    /\ UNCHANGED <<table, lock, slock, ticks, panicked, pc, rdev, rblk, bp,
                   cur, cycle>>

\* a thread calls bunpin(s) for an earlier bpin(s)
Bunpin(t, s) ==
    /\ panicked = NoPanic
    /\ pc[t] \in {"idle", "holding"}
    /\ pins[s] > 0
    /\ lock[HASH(buf[s].blockno)] = None
    /\ buf' = [buf EXCEPT ![s].refcnt = @ - 1]
    /\ pins' = [pins EXCEPT ![s] = @ - 1]
    /\ UNCHANGED <<table, lock, slock, ticks, panicked, pc, rdev, rblk, bp,
                   cur, cycle>>

Step(t) ==
    \/ \E d \in Devs, n \in BlockNos : Bread(t, d, n)
    \/ BgetLookup(t)
    \/ BgetHitSleep(t)
    \/ BgetScan(t)
    \/ BgetUnlink(t)
    \/ BgetRelink(t)
    \/ BgetInstall(t)
    \/ BgetMissSleep(t)
    \/ BgetPanic(t)
    \/ BreadCheck(t)
    \/ BreadDone(t)
    \/ \E s \in Slots : Bwrite(t, s)
    \/ BwriteDone(t)
    \/ \E s \in Slots : Brelse(t, s)
    \/ BrelseDec(t)
    \/ \E s \in Slots : Bpin(t, s)
    \/ \E s \in Slots : Bunpin(t, s)

Next == Tick \/ \E t \in Threads : Step(t)

Spec == Init /\ [][Next]_vars

\* one thread alone: the single-threaded executions
NextSeq == Tick \/ Step(1)

SpecSeq == Init /\ [][NextSeq]_vars

\* ---- vocabulary of the properties ---------------------------------------

\* thread t has a reference to bp[t] that it took in bget and did not yet
\* give back in brelse
RefStates ==
    {"hit_sleep", "miss_sleep", "ret_hit", "ret_miss", "io_read", "holding",
     "io_write", "brelse_dec"}

\* thread t returned from bget with bp[t] and did not yet call brelse
HeldStates == {"ret_hit", "ret_miss", "io_read", "holding", "io_write"}

\* thread t selected bp[t] as the victim and did not yet reassign it
ChosenStates == {"unlink", "relink", "install"}

Users(s) == {t \in Threads : pc[t] \in RefStates /\ bp[t] = s}

SameBlock(s1, s2) ==
    buf[s1].dev = buf[s2].dev /\ buf[s1].blockno = buf[s2].blockno

\* thread t is inside acquire() of bcache.lock[i]
SpinsOn(t, i) ==
    \/ pc[t] = "bget" /\ i = HASH(rblk[t])
    \/ pc[t] = "brelse_dec" /\ i = cur[t]
    \/ pc[t] = "scan" /\ cycle[t] # NBUCKET /\ i = cur[t]
       /\ i # HASH(rblk[t]) /\ ~holding(i, t)

\* thread t spins on a lock that thread u holds
WaitsFor(t, u) == \E i \in Buckets : SpinsOn(t, i) /\ lock[i] = u

AllBusy == \A s \in Slots : buf[s].refcnt > 0

\* ---- C1 ------------------------------------------------------------------
\* C1: no two distinct slots with refcnt > 0 carry the same (dev, blockno),
\* and all threads that have an outstanding reference obtained from bget for
\* the same (dev, blockno) have the same slot, which carries that identity.
C1_Uniqueness ==
    /\ \A s1, s2 \in Slots :
         (s1 # s2 /\ buf[s1].refcnt > 0 /\ buf[s2].refcnt > 0)
            => ~SameBlock(s1, s2)
    /\ \A t \in Threads :
         pc[t] \in RefStates
            => /\ buf[bp[t]].dev = rdev[t]
               /\ buf[bp[t]].blockno = rblk[t]
    /\ \A t1, t2 \in Threads :
         (pc[t1] \in RefStates /\ pc[t2] \in RefStates
          /\ rdev[t1] = rdev[t2] /\ rblk[t1] = rblk[t2])
            => bp[t1] = bp[t2]

\* two overlapping calls for one block: one thread uses the slot, the other
\* got the same slot from bget's hit path and waits for its sleeplock
C1_Witness ==
    \E t1, t2 \in Threads :
        /\ t1 # t2
        /\ pc[t1] = "holding" /\ pc[t2] = "hit_sleep"
        /\ bp[t1] = bp[t2]
        /\ rblk[t1] = rblk[t2]
        /\ \E s \in Slots : s # bp[t1] /\ buf[s].refcnt > 0

\* ---- C2 ------------------------------------------------------------------
\* C2: deadlock freedom: there is no reachable state with a nonempty set of
\* threads each spinning on a shard lock held by another thread of the set.
C2_NoLockCycle ==
    ~ \E S \in SUBSET Threads :
        /\ S # {}
        /\ \A t \in S : \E u \in S : u # t /\ WaitsFor(t, u)

\* ---- C3 ------------------------------------------------------------------
\* C3: a thread in the eviction scan (it holds its home shard's lock) never
\* waits for the lock of another shard: when the lock of the shard it visits
\* is held by another thread, the scan can still take its step (skip).
C3_NoWaitWhileHolding ==
    \A t \in Threads :
        (panicked = NoPanic /\ pc[t] = "scan" /\ cycle[t] # NBUCKET)
            => ENABLED BgetScan(t)

\* ---- C4 ------------------------------------------------------------------
\* C4: isolation: at most one thread is between its return from bget with
\* slot s and its brelse of s, and that thread holds the sleeplock of s.
C4_Isolation ==
    \A s \in Slots :
        /\ Cardinality({t \in Threads : pc[t] \in HeldStates /\ bp[t] = s}) <= 1
        /\ \A t \in Threads :
             (pc[t] \in HeldStates /\ bp[t] = s) => slock[s] = t

\* one thread uses slot s while another one, which already has its
\* reference, is kept waiting in acquiresleep
C4_Witness ==
    \E t1, t2 \in Threads :
        /\ t1 # t2
        /\ pc[t1] \in {"io_read", "holding"}
        /\ pc[t2] \in {"hit_sleep", "miss_sleep"}
        /\ bp[t1] = bp[t2]

\* ---- C5 ------------------------------------------------------------------
\* slot s gets a new identity in this step (the miss path overwrites it)
Reassigned(s) ==
    \/ buf'[s].dev # buf[s].dev
    \/ buf'[s].blockno # buf[s].blockno
    \/ (buf[s].valid = 1 /\ buf'[s].valid = 0)

\* nobody holds, waits for or has pinned slot s
Idle(s) == buf[s].refcnt = 0 /\ pins[s] = 0 /\ Users(s) = {}

\* C5: eviction only of idle slots: from the moment the scan chose a victim
\* until it is overwritten the victim's refcnt is 0 and no thread holds,
\* waits for or has pinned it; and every step that overwrites a slot's
\* dev/blockno/valid finds that slot in this condition.
C5_EvictIdleOnly ==
    /\ [](\A t \in Threads : pc[t] \in ChosenStates => Idle(bp[t]))
    /\ [][\A s \in Slots : Reassigned(s) => Idle(s)]_vars

\* a slot that cached a block is the chosen victim while the other thread
\* is asking bget for exactly that block
C5_Witness ==
    \E t1, t2 \in Threads :
        /\ pc[t1] \in ChosenStates
        /\ buf[bp[t1]].dev = 1
        /\ pc[t2] = "bget"
        /\ rdev[t2] = buf[bp[t1]].dev /\ rblk[t2] = buf[bp[t1]].blockno

\* ---- C6 ------------------------------------------------------------------
\* C6: recency, single-threaded: the victim a miss chooses has the smallest
\* timestamp among all slots with refcnt == 0, across all shards.
C6_GlobalLRU ==
    \A t \in Threads :
        pc[t] \in ChosenStates
            => \A s \in Slots :
                  buf[s].refcnt = 0
                     => buf[bp[t]].timestamp <= buf[s].timestamp

\* ---- C7 ------------------------------------------------------------------
\* thread t is one of a set of threads each spinning on a shard lock that
\* another thread of the set holds
Deadlocked(t) ==
    \E S \in SUBSET Threads :
        /\ t \in S
        /\ \A x \in S : \E u \in S : u # x /\ WaitsFor(x, u)

\* C7: capacity fatal path: a bget that missed while every slot has
\* refcnt > 0 goes on to panic("bget: no buffers"): it is never stuck in its
\* scan, and it leaves every slot and every list as they are.
C7_CapacityFatal ==
    /\ [](\A t \in Threads :
            (pc[t] = "scan" /\ AllBusy) => (bp[t] = None /\ ~Deadlocked(t)))
    /\ [][(panicked = NoPanic /\ panicked' = "bget: no buffers")
            => UNCHANGED <<buf, table, pc, bp, slock>>]_vars

\* ---- C8 ------------------------------------------------------------------
\* thread t takes the scan iteration over the shard it stands at
ScansShard(t) ==
    /\ pc[t] = "scan"
    /\ cycle'[t] = cycle[t] + 1
    /\ ~(cur[t] # HASH(rblk[t]) /\ holding(cur[t], t))

\* C8: pin/unpin independence: a pinned slot has refcnt > 0, is never the
\* chosen victim and never changes identity, holders or not; bpin and bunpin
\* leave every sleeplock as it is; and a scan iteration over a shard that
\* contains a slot with refcnt == 0 (for one, a slot whose last pin was
\* just removed) does choose a victim.
C8_PinIndependence ==
    /\ [](\A s \in Slots :
            pins[s] > 0
               => /\ buf[s].refcnt > 0
                  /\ \A t \in Threads : pc[t] \in ChosenStates => bp[t] # s)
    /\ [][\A s \in Slots : pins[s] > 0 => ~Reassigned(s)]_vars
    /\ [][(pins' # pins) => slock' = slock]_vars
    /\ [][\A t \in Threads :
            (ScansShard(t)
             /\ \E k \in 1..Len(table[cur[t]]) :
                   buf[table[cur[t]][k]].refcnt = 0)
               => pc'[t] \in ChosenStates]_vars

\* a slot is pinned and nobody holds it or its sleeplock, and a thread whose
\* home shard contains it has scanned that shard and passed it over
C8_Witness ==
    \E s \in Slots, t \in Threads :
        /\ pins[s] > 0 /\ buf[s].refcnt = pins[s]
        /\ slock[s] = None /\ Users(s) = {}
        /\ pc[t] = "scan" /\ cycle[t] >= 1
        /\ HASH(buf[s].blockno) = HASH(rblk[t])
        /\ \E s2 \in Slots : s2 # s /\ buf[s2].refcnt = 0

\* ---- C9 ------------------------------------------------------------------
\* C9: bread returns a slot whose sleeplock the caller holds, with the
\* requested dev/blockno and valid == 1; bread starts a disk read exactly
\* when the slot bget returned has valid == 0; and valid goes from 1 to 0
\* only when the miss path reassigns the slot, so a populated slot that was
\* not reassigned is never read from disk again.
C9_BreadValid ==
    /\ [](\A t \in Threads :
            pc[t] \in {"holding", "io_write"}
               => /\ slock[bp[t]] = t
                  /\ buf[bp[t]].dev = rdev[t]
                  /\ buf[bp[t]].blockno = rblk[t]
                  /\ buf[bp[t]].valid = 1)
    /\ [](\A t \in Threads :
            pc[t] = "io_read" => (slock[bp[t]] = t /\ buf[bp[t]].valid = 0))
    /\ [][\A t \in Threads :
            (pc[t] \in {"ret_hit", "ret_miss"} /\ pc'[t] # pc[t])
               => (pc'[t] = "io_read" <=> buf[bp[t]].valid = 0)]_vars
    /\ [][\A s \in Slots :
            (buf[s].valid = 1 /\ buf'[s].valid = 0)
               => \E t \in Threads :
                     pc[t] = "install" /\ bp[t] = s
                     /\ pc'[t] = "miss_sleep"]_vars

\* a bread of a block that is cached and populated: bget returned from its
\* hit path with a valid slot, no disk read follows
C9_Witness ==
    \E t \in Threads :
        /\ pc[t] = "ret_hit"
        /\ buf[bp[t]].valid = 1
        /\ buf[bp[t]].refcnt > 1

\* ---- C10 -----------------------------------------------------------------
\* C10: contract violation is fatal: a bwrite or brelse panic changes
\* nothing else; a disk write is only ever under way for a thread that holds
\* the buffer's sleeplock; a sleeplock is only ever released by its holder,
\* which then goes on to the decrement of brelse; and the decrement of
\* brelse is only ever reached for the buffer the caller got from bread.
C10_ViolationFatal ==
    /\ [][(panicked = NoPanic /\ panicked' \in {"bwrite", "brelse"})
            => UNCHANGED <<buf, table, lock, slock, ticks, pc, rdev, rblk,
                           bp, cur, cycle, pins>>]_vars
    /\ [](\A t \in Threads :
            pc[t] = "io_write" => (bp[t] # None /\ slock[bp[t]] = t))
    /\ [][\A s \in Slots :
            (slock[s] # None /\ slock'[s] # slock[s])
               => /\ slock'[s] = None
                  /\ pc[slock[s]] = "holding"
                  /\ pc'[slock[s]] = "brelse_dec"
                  /\ bp'[slock[s]] = s]_vars
    /\ [](\A t \in Threads :
            pc[t] = "brelse_dec"
               => /\ bp[t] # None
                  /\ buf[bp[t]].refcnt > 0
                  /\ buf[bp[t]].blockno = rblk[t])

\* brelse or bwrite was called on a buffer whose sleeplock another thread
\* holds, and the kernel panicked
C10_Witness ==
    /\ panicked \in {"bwrite", "brelse"}
    /\ \E s \in Slots, t \in Threads :
          slock[s] = t /\ pc[t] = "holding" /\ buf[s].refcnt > 0

\* ---- C11 -----------------------------------------------------------------
\* slot s is a member of the list of shard i
InList(s, i) == \E k \in 1..Len(table[i]) : table[i][k] = s

\* every field of every slot other than s is left as it is
OthersUnchanged(s) == \A x \in Slots : x # s => buf'[x] = buf[x]

Installs(t) == pc[t] = "install" /\ pc'[t] = "miss_sleep"

\* the reassignment gives the victim the requested identity, valid == 0,
\* refcnt == 1 and the current tick, in the home shard's list
InstallEffect(t) ==
    /\ buf'[bp[t]] = [dev |-> rdev[t], blockno |-> rblk[t], valid |-> 0,
                      refcnt |-> 1, timestamp |-> ticks]
    /\ InList(bp[t], HASH(rblk[t]))
    /\ table' = table

\* C12 as stated: when bget returns from the miss path the slot has the
\* requested dev/blockno, valid == 0, refcnt == 1, the timestamp of the
\* reassignment, is in the home shard's list and is locked by the caller.
C12_MissPostState ==
    /\ [][\A t \in Threads : Installs(t) => InstallEffect(t)]_vars
    /\ [](\A t \in Threads :
            pc[t] = "ret_miss"
               => /\ buf[bp[t]].dev = rdev[t]
                  /\ buf[bp[t]].blockno = rblk[t]
                  /\ buf[bp[t]].valid = 0
                  /\ buf[bp[t]].refcnt = 1
                  /\ InList(bp[t], HASH(rblk[t]))
                  /\ slock[bp[t]] = t)

\* C12 as amended: the reassignment sets valid == 0, refcnt == 1 and the
\* tick; at the return from the miss path the slot has the requested
\* dev/blockno, refcnt >= 1, is in the home shard's list and is locked by
\* the caller (other threads may have hit, read and released it meanwhile).
C12_MissPostStateAmended ==
    /\ [][\A t \in Threads : Installs(t) => InstallEffect(t)]_vars
    /\ [](\A t \in Threads :
            pc[t] = "ret_miss"
               => /\ buf[bp[t]].dev = rdev[t]
                  /\ buf[bp[t]].blockno = rblk[t]
                  /\ buf[bp[t]].refcnt >= 1
                  /\ InList(bp[t], HASH(rblk[t]))
                  /\ slock[bp[t]] = t)

\* bget returns from the miss path with a slot that another thread has
\* already read from disk and released
C12_Witness ==
    \E t \in Threads :
        /\ pc[t] = "ret_miss"
        /\ buf[bp[t]].valid = 1
        /\ buf[bp[t]].refcnt = 1

\* ---- C13 -----------------------------------------------------------------
\* the shards whose list contains slot s
ShardsOf(s) == {i \in Buckets : InList(s, i)}

\* no list names a slot twice
NoDuplicates ==
    \A i \in Buckets : \A j, k \in 1..Len(table[i]) :
        j # k => table[i][j] # table[i][k]

\* slot s has been unlinked by an evictor that has not inserted it yet
InTransit(s) == \E t \in Threads : pc[t] = "relink" /\ bp[t] = s

\* C13 as stated: initially every slot is in shard 0's list, and in every
\* reachable state, the intermediate states of a relocation included, every
\* slot is a member of exactly one shard's list.
C13_ExactlyOneList ==
    /\ \A s \in Slots : InList(s, 0)
    /\ [](NoDuplicates /\ \A s \in Slots : Cardinality(ShardsOf(s)) = 1)

\* C13 as amended: initially every slot is in shard 0's list; a slot is
\* never in two lists nor twice in one; it is in exactly one list except
\* between the unlink and the insert of its relocation, when it is in none.
C13_ExactlyOneListAmended ==
    /\ \A s \in Slots : InList(s, 0)
    /\ [](/\ NoDuplicates
          /\ \A s \in Slots :
                /\ Cardinality(ShardsOf(s)) <= 1
                /\ ShardsOf(s) = {} <=> InTransit(s))

\* one slot has been relocated out of shard 0 and the other is in transit
C13_Witness ==
    \E s, r \in Slots :
        /\ InTransit(s) /\ ShardsOf(s) = {}
        /\ ShardsOf(r) # {} /\ ShardsOf(r) # {0}

\* ---- C14 -----------------------------------------------------------------
\* positions at which a thread waits for a sleeplock, has returned from
\* bget, or is inside a disk transfer
SleepOrIoStates ==
    {"hit_sleep", "miss_sleep", "ret_hit", "ret_miss", "io_read", "io_write"}

\* the shard locks thread t holds
LocksHeld(t) == {i \in Buckets : holding(i, t)}

\* C14: a thread that waits for a slot's sleeplock, has returned from bget
\* or performs disk I/O holds no shard lock, and once a victim is chosen
\* the only shard lock still held after the unlink is the home shard's.
C14_LockDiscipline ==
    \A t \in Threads :
        /\ pc[t] \in SleepOrIoStates \cup {"holding", "idle"}
              => LocksHeld(t) = {}
        /\ pc[t] \in {"relink", "install"}
              => LocksHeld(t) = {HASH(rblk[t])}

\* an evictor that relocated its victim waits for the sleeplock while
\* another thread reads the same slot from disk
C14_Witness ==
    \E t, u \in Threads :
        /\ pc[t] = "miss_sleep"
        /\ cur[t] # HASH(rblk[t])
        /\ pc[u] = "io_read"
        /\ bp[u] = bp[t]

\* ---- C15 -----------------------------------------------------------------
\* thread t completes the decrement of brelse on slot s in this step
Releases(t, s) == pc[t] = "brelse_dec" /\ pc'[t] = "idle" /\ bp[t] = s

\* C15 as stated: whichever operation brings a slot's refcnt from positive
\* to 0 records the current tick in timestamp, and an operation on an
\* in-use slot that leaves refcnt positive does not change timestamp.
C15_TimestampAtZero ==
    [][\A s \in Slots :
          /\ (buf[s].refcnt > 0 /\ buf'[s].refcnt = 0)
                => buf'[s].timestamp = ticks
          /\ (buf[s].refcnt > 0 /\ buf'[s].refcnt > 0)
                => buf'[s].timestamp = buf[s].timestamp]_vars

\* C15 as amended: timestamp is written by the decrement of brelse, whether
\* or not refcnt reaches 0, and by the reassignment in bget, each time with
\* the current tick, and by nothing else; bunpin, bpin and a hit leave it.
C15_TimestampAtBrelse ==
    [][\A s \in Slots :
          /\ (\E t \in Threads : Releases(t, s) \/ (Installs(t) /\ bp[t] = s))
                => buf'[s].timestamp = ticks
          /\ buf'[s].timestamp # buf[s].timestamp
                => \E t \in Threads :
                      Releases(t, s) \/ (Installs(t) /\ bp[t] = s)]_vars

\* a slot released by its last holder at tick 0 is still pinned at tick 1:
\* the bunpin that follows brings refcnt to 0
C15_Witness ==
    \E s \in Slots :
        /\ pins[s] = 1
        /\ buf[s].refcnt = 1
        /\ Users(s) = {}
        /\ buf[s].valid = 1
        /\ buf[s].timestamp < ticks

\* ---- C16 -----------------------------------------------------------------
\* thread t takes a step of the miss path of bget (lines 87-129)
MissStep(t) ==
    \/ pc[t] \in {"scan", "unlink", "relink", "install", "miss_sleep"}
          /\ (pc'[t] # pc[t] \/ cycle'[t] # cycle[t])
    \/ pc[t] = "bget" /\ pc'[t] = "scan"

\* the list without slot s, order kept
Without(list, s) == SelectSeq(list, LAMBDA x : x # s)

\* C16: a step of a miss changes the fields of no slot but the victim, and
\* those only when it reassigns it; it changes no list when the victim was
\* found in the home shard; otherwise the unlink changes only the foreign
\* list, from which the victim disappears, the insert changes only the home
\* list, in which it appears, and all other slots keep their order.
C16_MissFrame ==
    [][\A t \in Threads :
          MissStep(t)
             => /\ \A s \in Slots :
                      buf'[s] # buf[s] => Installs(t) /\ bp[t] = s
                /\ Installs(t) => buf'[bp[t]] # buf[bp[t]]
                /\ \A i \in Buckets :
                      table'[i] # table[i]
                         => /\ cur[t] # HASH(rblk[t])
                            /\ \/ pc[t] = "unlink" /\ i = cur[t]
                               \/ pc[t] = "relink" /\ i = HASH(rblk[t])
                            /\ Without(table'[i], bp[t])
                                  = Without(table[i], bp[t])
                /\ pc[t] = "unlink"
                      => InList(bp[t], cur[t]) /\ ShardsOf(bp[t])' = {}
                /\ pc[t] = "relink"
                      => ShardsOf(bp[t])' = {HASH(rblk[t])}]_vars

\* a victim taken from a foreign shard has been inserted into a home list
\* that already had a member
C16_Witness ==
    \E t \in Threads :
        /\ pc[t] = "install"
        /\ cur[t] # HASH(rblk[t])
        /\ Len(table[HASH(rblk[t])]) = 2

\* ---- C17 -----------------------------------------------------------------
\* C17 as stated: bget panics only in a state where every slot has
\* refcnt > 0.
C17_FatalOnlyWhenExhausted ==
    panicked = "bget: no buffers" => \A s \in Slots : buf[s].refcnt > 0

\* C17 as amended: bget panics only at the end of a pass that visited all
\* NBUCKET shards in order from the home shard, without a victim, and every
\* visit that ended without a victim found refcnt > 0 in every slot of the
\* visited shard's list at the time of that visit.
C17_FatalAfterFullScan ==
    /\ [](\A t \in Threads :
            pc[t] = "scan"
               => /\ cur[t] = (HASH(rblk[t]) + cycle[t]) % NBUCKET
                  /\ bp[t] = None)
    /\ [][(panicked = NoPanic /\ panicked' = "bget: no buffers")
            => \E t \in Threads : pc[t] = "scan" /\ cycle[t] = NBUCKET]_vars
    /\ [][\A t \in Threads :
            (ScansShard(t) /\ pc'[t] = "scan")
               => \A k \in 1..Len(table[cur[t]]) :
                     buf[table[cur[t]][k]].refcnt > 0]_vars

\* bget has panicked although a slot with refcnt == 0 exists
C17_Witness ==
    /\ panicked = "bget: no buffers"
    /\ \E s \in Slots : buf[s].refcnt = 0

\* ---- C18 -----------------------------------------------------------------
\* the shard that brelse, bpin and bunpin lock for slot s
LockShard(s) == HASH(buf[s].blockno)

\* C18: a slot with refcnt > 0 is in the list of shard HASH(blockno) and in
\* no other; and every step that changes a slot's refcnt finds the slot in
\* the list of the shard named by its (new) blockno, with that shard's lock
\* either free, so that the step's critical section takes it, or held by
\* the thread that reassigns the slot.
C18_HashConsistency ==
    /\ [](\A s \in Slots :
            buf[s].refcnt > 0 => ShardsOf(s) = {LockShard(s)})
    /\ [][\A s \in Slots :
            buf'[s].refcnt # buf[s].refcnt
               => /\ ShardsOf(s) = {LockShard(s)'}
                  /\ ShardsOf(s)' = ShardsOf(s)
                  /\ \/ lock[LockShard(s)'] = None
                     \/ \E t \in Threads :
                           /\ Installs(t) /\ bp[t] = s
                           /\ lock[LockShard(s)'] = t]_vars

\* a slot relocated out of shard 0 is pinned and its holder is inside
\* brelse, about to take the lock of the shard computed from blockno
C18_Witness ==
    \E t \in Threads :
        /\ pc[t] = "brelse_dec"
        /\ cur[t] # 0
        /\ pins[bp[t]] = 1
        /\ buf[bp[t]].refcnt = 2

\* ---- C19 -----------------------------------------------------------------
\* the threads inside acquiresleep of slot s
SleepWaiters(s) ==
    {t \in Threads : pc[t] \in {"hit_sleep", "miss_sleep"} /\ bp[t] = s}

\* a slot with refcnt == 0 has a free sleeplock and no waiter
FreeWhenUnreferenced ==
    \A s \in Slots :
        buf[s].refcnt = 0 => slock[s] = None /\ SleepWaiters(s) = {}

\* C19 as stated: a slot with refcnt == 0 has a free sleeplock and no
\* waiter, so the evictor's acquiresleep finds the sleeplock free and
\* nobody else holds or has held the slot under its new identity.
C19_EvictorNeverBlocks ==
    /\ FreeWhenUnreferenced
    /\ \A t \in Threads :
          pc[t] = "miss_sleep"
             => slock[bp[t]] = None /\ buf[bp[t]].valid = 0

\* C19 as amended: a slot with refcnt == 0 has a free sleeplock and no
\* waiter; when the evictor reassigns it the sleeplock is free and nobody
\* waits for it; the evictor's acquiresleep can find the sleeplock taken
\* only by a thread that hit the new identity and returned from bget.
C19_EvictorBlocksOnlyOnHitter ==
    /\ [][\A t \in Threads :
            Installs(t) => slock[bp[t]] = None /\ SleepWaiters(bp[t]) = {}]_vars
    /\ [](/\ FreeWhenUnreferenced
          /\ \A t \in Threads :
                (pc[t] = "miss_sleep" /\ slock[bp[t]] # None)
                   => /\ slock[bp[t]] # t
                      /\ pc[slock[bp[t]]] \in HeldStates
                      /\ pc[slock[bp[t]]] # "ret_miss"
                      /\ rdev[slock[bp[t]]] = rdev[t]
                      /\ rblk[slock[bp[t]]] = rblk[t])

\* the evictor stands at acquiresleep while a thread that hit the new
\* identity holds the sleeplock
C19_Witness ==
    \E t \in Threads :
        /\ pc[t] = "miss_sleep"
        /\ slock[bp[t]] \in Threads \ {t}

\* ---- C20 -----------------------------------------------------------------
\* C20: a slot's refcnt is the number of threads that obtained it from bget
\* or wait in bget for its sleeplock and have not completed the decrement of
\* brelse, plus the number of outstanding pins; it is never negative.
C20_RefcntAccounting ==
    \A s \in Slots :
        /\ buf[s].refcnt = Cardinality(Users(s)) + pins[s]
        /\ buf[s].refcnt >= 0

\* a pinned slot for which one thread waits in bget while another has
\* released the sleeplock in brelse and not yet decremented
C20_Witness ==
    \E s \in Slots, t, u \in Threads :
        /\ pc[t] = "hit_sleep" /\ bp[t] = s
        /\ pc[u] = "brelse_dec" /\ bp[u] = s
        /\ pins[s] = 1
        /\ buf[s].refcnt = 3

=============================================================================
